---- MODULE Spec2Model ----
(***************************************************************************)
(* Model of the allocation engine of SMARTSCHEDULER (src/TaskScheduler.ts). *)
(*                                                                         *)
(* Time is counted in minutes from midnight of the day on which the        *)
(* scheduler is constructed (the constructor takes that day from the       *)
(* ambient clock and sets the workday to 08:00-20:00 of it).  An optional  *)
(* field (startTime?, endTime?, preferredTimeRange?) is the empty sequence *)
(* when undefined and a one-element sequence when present.                 *)
(*                                                                         *)
(* One run of autoSchedule is modelled as: AutoScheduleBegin (prioritize   *)
(* and generate the slot grid), then one step per iteration of the for     *)
(* loop (the step is the strategy scheduleTask dispatches to), then        *)
(* AutoScheduleReturn; FixedTaskThrows is the uncaught Error leaving       *)
(* autoSchedule.                                                           *)
(***************************************************************************)
EXTENDS Integers, Sequences, FiniteSets, TLC

VARIABLES
    input,           \* the caller's list as handed to the constructor (history)
    tasks,           \* this.tasks: the caller's list, sorted in place by the run
    workdayStart,    \* this.workdayStart
    workdayEnd,      \* this.workdayEnd
    availableSlots,  \* the slot grid of the run
    scheduledTasks,  \* the accumulator of autoSchedule
    placement,       \* history: for each accumulated task, the strategy and slot index
    pos,             \* index of the loop of autoSchedule in the sorted list
    pc,              \* "constructed", "loop", "returned", "thrown"
    returned,        \* <<>> while nothing was returned, <<list>> once autoSchedule returned
    config,          \* the SchedulingConfig given to createScheduler, <<>> when none
    frozen,          \* whether the list handed to the constructor is a frozen array
    loading,         \* store: state.loading
    error,           \* store: state.error, <<>> for null
    storage,         \* the task records persisted under STORAGE_KEY
    upd,             \* index of the forEach of autoScheduleTasks in the engine's output
    thunk            \* "none" (engine called directly), "try", "done", "caught"

\* what the engine never touches: its caller's configuration, store and storage
callerVars == <<config, frozen, loading, error, storage, upd, thunk>>

vars == <<input, tasks, workdayStart, workdayEnd, availableSlots,
          scheduledTasks, placement, pos, pc, returned,
          config, frozen, loading, error, storage, upd, thunk>>

-----------------------------------------------------------------------------
(* Program constants *)

WorkdayStartHour == 8

WorkdayEndHour == 20

SlotMinutes == 30

-----------------------------------------------------------------------------
(* Bounds and input domains *)

MaxTasks == 2

TaskType == {"fixed", "routine", "flexible"}

TaskPriority == {"high", "medium"}

\* a negative and a zero duration, the slot length, one minute more
Durations == {-30, 0, 30, 31}

\* none, 07:30 (before the workday), 08:00 and 20:00 (its two ends)
StartTimes == {<<>>, <<450>>, <<480>>, <<1200>>}

\* one window, not aligned with the grid: only the slot 08:30-09:00 lies inside it
PreferredTimeRanges == {<<>>, <<[start |-> 500, end |-> 545]>>}

\* values the ambient clock (new Date()) can return while a run executes
Clock == {480, 1290}

\* the task records handed to the engine.  The fields the engine never reads
\* for a kind of task are not varied: a task that is not Fixed comes without
\* startTime, a Fixed task has priority medium (its rank comes from its
\* type), and a task with a startTime lasts 30 minutes.
TaskInputs ==
    {s \in [type : TaskType, priority : TaskPriority, duration : Durations,
            startTime : StartTimes, preferredTimeRange : PreferredTimeRanges] :
        /\ s.type # "fixed" => s.startTime = <<>>
        /\ s.type = "fixed" => s.priority = "medium"
        /\ s.startTime # <<>> => s.duration = SlotMinutes}

Task(shape, id) ==
    [id |-> id, type |-> shape.type, priority |-> shape.priority,
     duration |-> shape.duration, startTime |-> shape.startTime,
     endTime |-> <<>>, preferredTimeRange |-> shape.preferredTimeRange]

-----------------------------------------------------------------------------
(* prioritizeTasks *)

\* the lookup table priorityOrder; 0 stands for a missing key (undefined, falsy)
PriorityOrder(key) ==
    CASE key = "fixed"    -> 4
      [] key = "high"     -> 3
      [] key = "routine"  -> 2
      [] key = "flexible" -> 1
      [] OTHER            -> 0

\* priorityOrder[a.type] || priorityOrder[a.priority] || 0
Rank(t) ==
    IF PriorityOrder(t.type) # 0 THEN PriorityOrder(t.type)
    ELSE IF PriorityOrder(t.priority) # 0 THEN PriorityOrder(t.priority)
    ELSE 0

RECURSIVE InsertByRankBeforeTies(_, _)
InsertByRankBeforeTies(s, t) ==
    IF s = <<>> THEN <<t>>
    ELSE IF Rank(Head(s)) > Rank(t)
         THEN <<Head(s)>> \o InsertByRankBeforeTies(Tail(s), t)
    ELSE <<t>> \o s

RECURSIVE InsertByRank(_, _)
\* insert t into the sorted list s behind every element the comparator does
\* not order after it (bPriority - aPriority <= 0): Array.prototype.sort is stable
InsertByRank(s, t) ==
    IF s = <<>> THEN <<t>>
    ELSE IF Rank(Head(s)) >= Rank(t) THEN <<Head(s)>> \o InsertByRank(Tail(s), t)
    ELSE <<t>> \o s

RECURSIVE PrioritizeTasks(_)
PrioritizeTasks(ts) ==
    IF ts = <<>> THEN <<>>
    ELSE InsertByRank(PrioritizeTasks(SubSeq(ts, 1, Len(ts) - 1)), ts[Len(ts)])

-----------------------------------------------------------------------------
(* generateTimeSlots *)

RECURSIVE SlotsFrom(_, _)
SlotsFrom(currentTime, wEnd) ==
    IF currentTime < wEnd
    THEN <<[start |-> currentTime, end |-> currentTime + SlotMinutes,
            available |-> TRUE]>> \o SlotsFrom(currentTime + SlotMinutes, wEnd)
    ELSE <<>>

RECURSIVE SlotsFromWhole(_, _)
SlotsFromWhole(currentTime, wEnd) ==
    IF currentTime + SlotMinutes <= wEnd
    THEN <<[start |-> currentTime, end |-> currentTime + SlotMinutes,
            available |-> TRUE]>> \o SlotsFromWhole(currentTime + SlotMinutes, wEnd)
    ELSE <<>>

GenerateTimeSlotsWhole(wStart, wEnd) == SlotsFromWhole(wStart, wEnd)

GenerateTimeSlotsOffByOne(wStart, wEnd) == SlotsFrom(wStart, wEnd + 1)

GenerateTimeSlots(wStart, wEnd) == SlotsFrom(wStart, wEnd)

-----------------------------------------------------------------------------
(* helpers *)

CanFitTaskStrict(slot, task) == (slot.end - slot.start) > task.duration

CanFitTaskAlways(slot, task) == TRUE

CanFitTask(slot, task) == (slot.end - slot.start) >= task.duration

\* startTime is the optional second argument; without it the clock is read
CalculateEndTime(task, startTime, now) ==
    (IF startTime # <<>> THEN startTime[1] ELSE now) + task.duration

IsWithinWorkdayExclusive(time) == time >= workdayStart /\ time < workdayEnd

IsWithinWorkday(time) == time >= workdayStart /\ time <= workdayEnd

\* the first (chronological) of the slot indices in candidates, 0 when none
FirstIndex(candidates) ==
    IF candidates = {} THEN 0
    ELSE CHOOSE i \in candidates : \A j \in candidates : i <= j

LastIndex(candidates) ==
    IF candidates = {} THEN 0
    ELSE CHOOSE i \in candidates : \A j \in candidates : i >= j

\* a placement that forgets to book its slot
PlacedLeavesSlot(task, slots, sel, now) ==
    IF sel = 0
    THEN [task |-> <<>>, slots |-> slots, sel |-> 0]
    ELSE [task  |-> <<[task EXCEPT
                         !.startTime = <<slots[sel].start>>,
                         !.endTime = <<CalculateEndTime(task, <<slots[sel].start>>, now)>>]>>,
          slots |-> slots,
          sel   |-> sel]

\* the outcome of a slot-based strategy that selected slot sel (0: none)
Placed(task, slots, sel, now) ==
    IF sel = 0
    THEN [task |-> <<>>, slots |-> slots, sel |-> 0]
    ELSE [task  |-> <<[task EXCEPT
                         !.startTime = <<slots[sel].start>>,
                         !.endTime = <<CalculateEndTime(task, <<slots[sel].start>>, now)>>]>>,
          slots |-> [slots EXCEPT ![sel].available = FALSE],
          sel   |-> sel]

-----------------------------------------------------------------------------
(* placement strategies *)

ScheduleTaskWindowFirst(task) ==
    IF task.preferredTimeRange # <<>> THEN "preference"
    ELSE IF task.type = "fixed" /\ task.startTime # <<>> THEN "fixed"
    ELSE "flexible"

\* which strategy scheduleTask dispatches the task to
ScheduleTask(task) ==
    IF task.type = "fixed" /\ task.startTime # <<>> THEN "fixed"
    ELSE IF task.preferredTimeRange # <<>> THEN "preference"
    ELSE "flexible"

FixedTaskInside(task) == task.startTime # <<>> /\ IsWithinWorkday(task.startTime[1])

ScheduleFixedTaskNoThrow(task, now) ==
    [thrown |-> FALSE,
     task   |-> <<[task EXCEPT !.endTime = <<CalculateEndTime(task, <<>>, now)>>]>>]

ScheduleFixedTask(task, now) ==
    IF FixedTaskInside(task)
    THEN [thrown |-> FALSE,
          task   |-> <<[task EXCEPT !.endTime = <<CalculateEndTime(task, <<>>, now)>>]>>]
    ELSE [thrown |-> TRUE, task |-> <<>>]

ScheduleTaskWithPreferenceFallback(task, slots, now) ==
    LET range == task.preferredTimeRange[1]
        Fits(i) == slots[i].available /\ CanFitTask(slots[i], task)
        Preferred(i) == slots[i].start >= range.start /\ slots[i].end <= range.end
        inWindow == {i \in 1..Len(slots) : Preferred(i) /\ Fits(i)}
    IN  Placed(task, slots,
               IF inWindow # {} THEN FirstIndex(inWindow)
               ELSE FirstIndex({i \in 1..Len(slots) : Fits(i)}), now)

ScheduleTaskWithPreferenceNoEnd(task, slots, now) ==
    LET range == task.preferredTimeRange[1]
        Preferred(i) == slots[i].start >= range.start /\ slots[i].available
    IN  Placed(task, slots,
               FirstIndex({i \in 1..Len(slots) : Preferred(i) /\ CanFitTask(slots[i], task)}), now)

ScheduleTaskWithPreference(task, slots, now) ==
    IF task.preferredTimeRange = <<>> THEN [task |-> <<>>, slots |-> slots, sel |-> 0]
    ELSE
    LET range == task.preferredTimeRange[1]
        Preferred(i) == /\ slots[i].start >= range.start
                        /\ slots[i].end <= range.end
                        /\ slots[i].available
    IN  Placed(task, slots,
               FirstIndex({i \in 1..Len(slots) : Preferred(i) /\ CanFitTask(slots[i], task)}), now)

ScheduleFlexibleTaskLast(task, slots, now) ==
    Placed(task, slots,
           LastIndex({i \in 1..Len(slots) : slots[i].available /\ CanFitTask(slots[i], task)}), now)

ScheduleFlexibleTaskReuse(task, slots, now) ==
    Placed(task, slots,
           FirstIndex({i \in 1..Len(slots) : CanFitTask(slots[i], task)}), now)

\* a Flexible placement that only looks at every other slot
ScheduleFlexibleTaskEveryOther(task, slots, now) ==
    Placed(task, slots,
           FirstIndex({i \in 1..Len(slots) :
                          i % 2 = 1 /\ slots[i].available /\ CanFitTask(slots[i], task)}), now)

ScheduleFlexibleTask(task, slots, now) ==
    Placed(task, slots,
           FirstIndex({i \in 1..Len(slots) : slots[i].available /\ CanFitTask(slots[i], task)}), now)

-----------------------------------------------------------------------------
(* the run *)

\* the engine constructed and run directly on a caller's own list
NoCaller ==
    /\ config = <<>>
    /\ frozen = FALSE
    /\ loading = FALSE
    /\ error = <<>>
    /\ storage = <<>>
    /\ upd = 1
    /\ thunk = "none"

Init ==
    /\ \E n \in 0..MaxTasks : \E shapes \in [1..n -> TaskInputs] :
          tasks = [i \in 1..n |-> Task(shapes[i], i)]
    /\ input = tasks
    /\ workdayStart = WorkdayStartHour * 60
    /\ workdayEnd = WorkdayEndHour * 60
    /\ availableSlots = <<>>
    /\ scheduledTasks = <<>>
    /\ placement = <<>>
    /\ pos = 0
    /\ pc = "constructed"
    /\ returned = <<>>
    /\ NoCaller

\* Array.prototype.sort writes the sorted elements back into the array: on a
\* frozen array of two or more elements that is a TypeError; on a frozen
\* array of one element the engines differ (V8 returns at once for a length
\* under 2, the language specification writes the element back); an empty
\* array is never written
SortFails == frozen /\ Len(tasks) >= 1

SortSucceeds == ~frozen \/ Len(tasks) <= 1

AutoScheduleBegin ==
    /\ pc = "constructed"
    /\ SortSucceeds
    /\ tasks' = PrioritizeTasks(tasks)
    /\ scheduledTasks' = <<>>
    /\ placement' = <<>>
    /\ availableSlots' = GenerateTimeSlots(workdayStart, workdayEnd)
    /\ pos' = 1
    /\ pc' = "loop"
    /\ UNCHANGED <<input, workdayStart, workdayEnd, returned>>
    /\ UNCHANGED callerVars

InLoop == pc = "loop" /\ pos <= Len(tasks)

AccumulateFront(r, via) ==
    /\ availableSlots' = r.slots
    /\ IF r.task # <<>>
       THEN /\ scheduledTasks' = <<r.task[1]>> \o scheduledTasks
            /\ placement' = <<[via |-> via, slot |-> r.sel]>> \o placement
       ELSE UNCHANGED <<scheduledTasks, placement>>
    /\ pos' = pos + 1
    /\ UNCHANGED <<input, tasks, workdayStart, workdayEnd, pc, returned>>
    /\ UNCHANGED callerVars

\* a placement written into the caller's record instead of a copy
AccumulateInPlace(r, via) ==
    /\ availableSlots' = r.slots
    /\ IF r.task # <<>>
       THEN /\ scheduledTasks' = Append(scheduledTasks, r.task[1])
            /\ placement' = Append(placement, [via |-> via, slot |-> r.sel])
            /\ tasks' = [tasks EXCEPT ![pos] = r.task[1]]
       ELSE UNCHANGED <<scheduledTasks, placement, tasks>>
    /\ pos' = pos + 1
    /\ UNCHANGED <<input, workdayStart, workdayEnd, pc, returned>>
    /\ UNCHANGED callerVars

\* push the slot-based outcome r of the strategy via, if it is non-null
Accumulate(r, via) ==
    /\ availableSlots' = r.slots
    /\ IF r.task # <<>>
       THEN /\ scheduledTasks' = Append(scheduledTasks, r.task[1])
            /\ placement' = Append(placement, [via |-> via, slot |-> r.sel])
       ELSE UNCHANGED <<scheduledTasks, placement>>
    /\ pos' = pos + 1
    /\ UNCHANGED <<input, tasks, workdayStart, workdayEnd, pc, returned>>
    /\ UNCHANGED callerVars

\* a Fixed placement that books the slot its startTime falls in
FixedTaskPlacedConsumes ==
    /\ InLoop
    /\ ScheduleTask(tasks[pos]) = "fixed"
    /\ \E now \in Clock :
          LET r == ScheduleFixedTask(tasks[pos], now)
          IN  /\ ~r.thrown
              /\ scheduledTasks' = Append(scheduledTasks, r.task[1])
              /\ placement' = Append(placement, [via |-> "fixed", slot |-> 0])
              /\ availableSlots' =
                    [i \in 1..Len(availableSlots) |->
                        IF /\ availableSlots[i].start <= r.task[1].startTime[1]
                           /\ r.task[1].startTime[1] < availableSlots[i].end
                        THEN [availableSlots[i] EXCEPT !.available = FALSE]
                        ELSE availableSlots[i]]
    /\ pos' = pos + 1
    /\ UNCHANGED <<input, tasks, workdayStart, workdayEnd, pc, returned>>
    /\ UNCHANGED callerVars

FixedTaskPlaced ==
    /\ InLoop
    /\ ScheduleTask(tasks[pos]) = "fixed"
    /\ \E now \in Clock :
          LET r == ScheduleFixedTask(tasks[pos], now)
          IN  /\ ~r.thrown
              /\ scheduledTasks' = Append(scheduledTasks, r.task[1])
              /\ placement' = Append(placement, [via |-> "fixed", slot |-> 0])
    /\ pos' = pos + 1
    /\ UNCHANGED <<input, tasks, workdayStart, workdayEnd, availableSlots, pc, returned>>
    /\ UNCHANGED callerVars

FixedTaskThrows ==
    /\ InLoop
    /\ ScheduleTask(tasks[pos]) = "fixed"
    /\ \E now \in Clock : ScheduleFixedTask(tasks[pos], now).thrown
    /\ pc' = "thrown"
    /\ UNCHANGED <<input, tasks, workdayStart, workdayEnd, availableSlots,
                   scheduledTasks, placement, pos, returned>>
    /\ UNCHANGED callerVars

PreferencePlacement ==
    /\ InLoop
    /\ ScheduleTask(tasks[pos]) = "preference"
    /\ \E now \in Clock :
          Accumulate(ScheduleTaskWithPreference(tasks[pos], availableSlots, now), "preference")

FlexiblePlacement ==
    /\ InLoop
    /\ ScheduleTask(tasks[pos]) = "flexible"
    /\ \E now \in Clock :
          Accumulate(ScheduleFlexibleTask(tasks[pos], availableSlots, now), "flexible")

AutoScheduleReturn ==
    /\ pc = "loop"
    /\ pos > Len(tasks)
    /\ returned' = <<scheduledTasks>>
    /\ pc' = "returned"
    /\ UNCHANGED <<input, tasks, workdayStart, workdayEnd, availableSlots,
                   scheduledTasks, placement, pos>>
    /\ UNCHANGED callerVars

Next ==
    \/ AutoScheduleBegin
    \/ FixedTaskPlaced
    \/ FixedTaskThrows
    \/ PreferencePlacement
    \/ FlexiblePlacement
    \/ AutoScheduleReturn

Spec == Init /\ [][Next]_vars

\* generateTimeSlots on other workday bounds than the constructor's: the
\* end 20, 45 and 60 minutes after 08:00, with 30-minute tasks
GridWorkdayEnds == {500, 525, 540}

GridTaskInputs ==
    {s \in TaskInputs : s.priority = "medium" /\ s.duration = SlotMinutes}

GridInit ==
    /\ \E n \in 0..MaxTasks : \E shapes \in [1..n -> GridTaskInputs] :
          tasks = [i \in 1..n |-> Task(shapes[i], i)]
    /\ input = tasks
    /\ workdayStart = WorkdayStartHour * 60
    /\ workdayEnd \in GridWorkdayEnds
    /\ availableSlots = <<>>
    /\ scheduledTasks = <<>>
    /\ placement = <<>>
    /\ pos = 0
    /\ pc = "constructed"
    /\ returned = <<>>
    /\ NoCaller

GridSpec == GridInit /\ [][Next]_vars

\* the runs whose termination is checked: tasks of medium priority that fit
\* a slot (30 minutes) or do not (31)
FairTaskInputs ==
    {s \in TaskInputs :
        s.priority = "medium" /\ s.duration \in {SlotMinutes, SlotMinutes + 1}}

FairInit ==
    /\ \E n \in 0..MaxTasks : \E shapes \in [1..n -> FairTaskInputs] :
          tasks = [i \in 1..n |-> Task(shapes[i], i)]
    /\ input = tasks
    /\ workdayStart = WorkdayStartHour * 60
    /\ workdayEnd = WorkdayEndHour * 60
    /\ availableSlots = <<>>
    /\ scheduledTasks = <<>>
    /\ placement = <<>>
    /\ pos = 0
    /\ pc = "constructed"
    /\ returned = <<>>
    /\ NoCaller

\* the same runs without a fairness condition
FitSpec == FairInit /\ [][Next]_vars

\* autoSchedule is synchronous, single-threaded code: a step that can be
\* taken is taken
FairSpec == FairInit /\ [][Next]_vars /\ WF_vars(Next)

-----------------------------------------------------------------------------
(* SchedulingUtility.createScheduler *)

\* SchedulingConfig: three optional fields; a 09:00 start, a 17:00 end and a
\* 15-minute break are the values a caller asks for
SchedulingConfigs ==
    [workdayStart : {<<>>, <<540>>}, workdayEnd : {<<>>, <<1020>>},
     breakBetweenTasks : {<<>>, <<15>>}]

\* a scheduler that takes its workday from the configuration
CreateSchedulerConfigured(ts, cfg) ==
    [tasks |-> ts,
     workdayStart |-> IF cfg # <<>> /\ cfg[1].workdayStart # <<>>
                      THEN cfg[1].workdayStart[1] ELSE WorkdayStartHour * 60,
     workdayEnd |-> IF cfg # <<>> /\ cfg[1].workdayEnd # <<>>
                    THEN cfg[1].workdayEnd[1] ELSE WorkdayEndHour * 60]

\* new TaskScheduler(tasks); the body of `if (config)` is empty
CreateScheduler(ts, cfg) ==
    [tasks |-> ts,
     workdayStart |-> WorkdayStartHour * 60,
     workdayEnd |-> WorkdayEndHour * 60]

ConfigInit ==
    /\ \E n \in 0..MaxTasks : \E shapes \in [1..n -> FairTaskInputs] :
       \E cfg \in {<<>>} \cup {<<c>> : c \in SchedulingConfigs} :
          LET scheduler == CreateScheduler([i \in 1..n |-> Task(shapes[i], i)], cfg)
          IN  /\ tasks = scheduler.tasks
              /\ workdayStart = scheduler.workdayStart
              /\ workdayEnd = scheduler.workdayEnd
              /\ config = cfg
    /\ input = tasks
    /\ availableSlots = <<>>
    /\ scheduledTasks = <<>>
    /\ placement = <<>>
    /\ pos = 0
    /\ pc = "constructed"
    /\ returned = <<>>
    /\ frozen = FALSE
    /\ loading = FALSE
    /\ error = <<>>
    /\ storage = <<>>
    /\ upd = 1
    /\ thunk = "none"

ConfigSpec == ConfigInit /\ [][Next]_vars

-----------------------------------------------------------------------------
(* the store and the thunk autoScheduleTasks *)

\* the records of the store before the thunk runs: Fixed and Flexible tasks of
\* 30 minutes, with or without a startTime/endTime left by an earlier run
StoredTaskInputs ==
    [type : {"fixed", "flexible"}, priority : {"medium"}, duration : {SlotMinutes},
     startTime : {<<>>, <<450>>, <<480>>}, endTime : {<<>>, <<630>>},
     preferredTimeRange : PreferredTimeRanges]

StoredTask(shape, id) ==
    [id |-> id, type |-> shape.type, priority |-> shape.priority,
     duration |-> shape.duration, startTime |-> shape.startTime,
     endTime |-> shape.endTime, preferredTimeRange |-> shape.preferredTimeRange]

\* state.tasks.findIndex(t => t.id === id): the first match, 0 for -1
FindIndex(ts, id) == FirstIndex({i \in 1..Len(ts) : ts[i].id = id})

\* a reducer that pushes the payload instead of replacing the record
UpdateTaskReducerAppends(ts, payload) == Append(ts, payload)

\* taskSlice.reducers.updateTask
UpdateTaskReducer(ts, payload) ==
    IF FindIndex(ts, payload.id) # 0
    THEN [ts EXCEPT ![FindIndex(ts, payload.id)] = payload]
    ELSE ts

\* TaskStorageService.updateTask: load, replace the record of that id, save
\* (updatedAt, which it refreshes, is not a field of the modelled record)
StorageUpdateTask(stored, updatedTask) ==
    IF FindIndex(stored, updatedTask.id) # 0
    THEN [stored EXCEPT ![FindIndex(stored, updatedTask.id)] = updatedTask]
    ELSE stored

FailedToAutoSchedule == "Failed to auto-schedule tasks"

\* lines 104-105 of the thunk are done: the scheduler is constructed on
\* getState().tasks.tasks itself, so `tasks` is both this.tasks and the
\* store's list.  Whether reducers leave that list frozen depends on the
\* build (Immer's autoFreeze).
ThunkInit ==
    /\ \E n \in 0..MaxTasks : \E shapes \in [1..n -> StoredTaskInputs] :
          tasks = [i \in 1..n |-> StoredTask(shapes[i], i)]
    /\ input = tasks
    /\ storage = tasks
    /\ workdayStart = WorkdayStartHour * 60
    /\ workdayEnd = WorkdayEndHour * 60
    /\ availableSlots = <<>>
    /\ scheduledTasks = <<>>
    /\ placement = <<>>
    /\ pos = 0
    /\ pc = "constructed"
    /\ returned = <<>>
    /\ config = <<>>
    /\ frozen \in BOOLEAN
    /\ loading = FALSE
    /\ error = <<>>
    /\ upd = 1
    /\ thunk = "try"

\* this.tasks.sort(...) throws a TypeError out of autoSchedule
SortThrows ==
    /\ pc = "constructed"
    /\ SortFails
    /\ pc' = "sortfailed"
    /\ UNCHANGED <<input, tasks, workdayStart, workdayEnd, availableSlots,
                   scheduledTasks, placement, pos, returned>>
    /\ UNCHANGED callerVars

\* a catch that still dispatches what the engine had accumulated
ThunkCatchSurfaces ==
    /\ thunk = "try"
    /\ pc \in {"thrown", "sortfailed"}
    /\ error' = <<FailedToAutoSchedule>>
    /\ loading' = FALSE
    /\ thunk' = "caught"
    /\ tasks' = IF scheduledTasks # <<>>
                THEN UpdateTaskReducer(tasks, scheduledTasks[1]) ELSE tasks
    /\ UNCHANGED <<input, workdayStart, workdayEnd, availableSlots,
                   scheduledTasks, placement, pos, pc, returned,
                   config, frozen, storage, upd>>

\* one iteration of scheduledTasks.forEach: persist, then dispatch updateTask
ThunkUpdateTask ==
    /\ thunk = "try"
    /\ pc = "returned"
    /\ upd <= Len(returned[1])
    /\ storage' = StorageUpdateTask(storage, returned[1][upd])
    /\ tasks' = UpdateTaskReducer(tasks, returned[1][upd])
    /\ upd' = upd + 1
    /\ UNCHANGED <<input, workdayStart, workdayEnd, availableSlots,
                   scheduledTasks, placement, pos, pc, returned,
                   config, frozen, loading, error, thunk>>

\* the forEach is over: the thunk returns
ThunkReturn ==
    /\ thunk = "try"
    /\ pc = "returned"
    /\ upd > Len(returned[1])
    /\ thunk' = "done"
    /\ UNCHANGED <<input, tasks, workdayStart, workdayEnd, availableSlots,
                   scheduledTasks, placement, pos, pc, returned,
                   config, frozen, loading, error, storage, upd>>

\* catch (error): dispatch setError, which also clears loading
ThunkCatch ==
    /\ thunk = "try"
    /\ pc \in {"thrown", "sortfailed"}
    /\ error' = <<FailedToAutoSchedule>>
    /\ loading' = FALSE
    /\ thunk' = "caught"
    /\ UNCHANGED <<input, tasks, workdayStart, workdayEnd, availableSlots,
                   scheduledTasks, placement, pos, pc, returned,
                   config, frozen, storage, upd>>

ThunkNext ==
    \/ Next
    \/ SortThrows
    \/ ThunkUpdateTask
    \/ ThunkReturn
    \/ ThunkCatch

ThunkSpec == ThunkInit /\ [][ThunkNext]_vars

-----------------------------------------------------------------------------
(* autoSchedule as a function of the list and of the time it executes at *)

RECURSIVE RunFrom(_, _, _, _)
\* the loop of autoSchedule from index i on: thrown, or the tasks pushed
RunFrom(sorted, i, slots, now) ==
    IF i > Len(sorted) THEN [thrown |-> FALSE, out |-> <<>>]
    ELSE
    LET t == sorted[i]
        how == ScheduleTask(t)
        fixed == ScheduleFixedTask(t, now)
        r == IF how = "fixed"
             THEN [task |-> fixed.task, slots |-> slots, sel |-> 0]
             ELSE IF how = "preference"
             THEN ScheduleTaskWithPreference(t, slots, now)
             ELSE ScheduleFlexibleTask(t, slots, now)
        rest == RunFrom(sorted, i + 1, r.slots, now)
    IN  IF (how = "fixed" /\ fixed.thrown) \/ rest.thrown
        THEN [thrown |-> TRUE, out |-> <<>>]
        ELSE [thrown |-> FALSE, out |-> r.task \o rest.out]

AutoSchedule(ts, now) ==
    RunFrom(PrioritizeTasks(ts), 1, GenerateTimeSlots(workdayStart, workdayEnd), now)

-----------------------------------------------------------------------------
(* Properties *)

SlotBased(k) == placement[k].via \in {"preference", "flexible"}

Overlap(a, b) ==
    a.startTime[1] < b.endTime[1] /\ b.startTime[1] < a.endTime[1]

InputOf(id) == CHOOSE t \in {input[i] : i \in 1..Len(input)} : t.id = id

Inside(time) == time >= workdayStart /\ time <= workdayEnd

Min(S) == CHOOSE m \in S : \A x \in S : m <= x

\* C1: a returned list never holds two tasks placed through a slot-based
\* strategy (Preferred-Window or Flexible) whose [startTime, endTime) ranges
\* overlap, and no slot is given to two tasks of one run.
C1_NoDoubleBooking ==
    pc = "returned" =>
        \A k, l \in 1..Len(returned[1]) :
            (k # l /\ SlotBased(k) /\ SlotBased(l)) =>
                /\ ~Overlap(returned[1][k], returned[1][l])
                /\ placement[k].slot # placement[l].slot

C1_Witness ==
    /\ pc = "returned"
    /\ \E k, l \in 1..Len(returned[1]) :
          /\ k # l /\ SlotBased(k) /\ SlotBased(l)
          /\ returned[1][k].duration = SlotMinutes
          /\ returned[1][l].duration = SlotMinutes
          /\ returned[1][k].endTime = returned[1][l].startTime

\* C2 (as claimed): every Fixed task whose startTime lies inside the workday
\* is returned with its startTime unchanged and endTime = startTime + duration.
C2_FixedEndTime ==
    pc = "returned" =>
        \A i \in 1..Len(input) :
            (input[i].type = "fixed" /\ input[i].startTime # <<>>
                /\ Inside(input[i].startTime[1])) =>
                \E k \in 1..Len(returned[1]) :
                    /\ returned[1][k].id = input[i].id
                    /\ returned[1][k].startTime = input[i].startTime
                    /\ returned[1][k].endTime =
                           <<input[i].startTime[1] + input[i].duration>>

\* C3: when the input holds a Fixed task whose startTime is outside the
\* workday the run never returns a list: it ends in the hard failure, and a
\* run that ended in the hard failure has surfaced nothing, whatever it had
\* accumulated; the loop never gets past such a task.
C3_HardFailure ==
    LET outside == \E i \in 1..Len(input) :
                      /\ input[i].type = "fixed" /\ input[i].startTime # <<>>
                      /\ ~Inside(input[i].startTime[1])
    IN  /\ outside => (pc # "returned" /\ returned = <<>>)
        /\ pc = "thrown" => (outside /\ returned = <<>>)
        /\ pc = "loop" =>
              \A i \in 1..(pos - 1) :
                  (tasks[i].type = "fixed" /\ tasks[i].startTime # <<>>)
                      => Inside(tasks[i].startTime[1])

C3_Witness ==
    /\ pc = "thrown"
    /\ Len(scheduledTasks) >= 1
    /\ returned = <<>>

\* the rank the claim C4 gives a task
ClaimedRank(t) ==
    IF t.type = "fixed" THEN 4
    ELSE IF t.priority = "high" THEN 3
    ELSE IF t.type = "routine" THEN 2
    ELSE 1

\* C4 (as claimed): after prioritizeTasks the list is ordered Fixed, then
\* High-priority, then Routine, then Flexible.
C4_PriorityOrder ==
    pc # "constructed" =>
        \A i, j \in 1..Len(tasks) :
            i < j => ClaimedRank(tasks[i]) >= ClaimedRank(tasks[j])

\* C5 (as claimed): every returned task has its startTime and its endTime
\* inside [workdayStart, workdayEnd].
C5_InsideWorkday ==
    pc = "returned" =>
        \A k \in 1..Len(returned[1]) :
            /\ Inside(returned[1][k].startTime[1])
            /\ Inside(returned[1][k].endTime[1])

\* C6 (as claimed): a task of zero or negative duration is never placed by
\* a slot-based strategy and no slot is marked unavailable for it.
C6_NoMatchForNonPositiveDuration ==
    \A k \in 1..Len(scheduledTasks) :
        SlotBased(k) => scheduledTasks[k].duration > 0

\* C7: within a run a slot that is unavailable stays unavailable, and a
\* task is only ever placed in a slot that was available before the step.
C7_SlotsOnlyConsumed ==
    [][pc = "loop" =>
        \A i \in 1..Len(availableSlots) :
            /\ ~availableSlots[i].available => ~availableSlots'[i].available
            /\ (/\ Len(placement') > Len(placement)
                /\ placement'[Len(placement')].slot = i)
               => availableSlots[i].available]_vars

C7_Witness ==
    /\ Len(placement) = 2
    /\ SlotBased(1) /\ SlotBased(2)
    /\ placement[1].slot # placement[2].slot
    /\ ~availableSlots[placement[1].slot].available
    /\ ~availableSlots[placement[2].slot].available

\* C8: the slot grid tiles the workday exactly: it starts at workdayStart,
\* every slot is 30 minutes long and starts where the previous one ends, the
\* last one ends at workdayEnd, there are (workdayEnd - workdayStart) / 30
\* slots (24 for 08:00-20:00), all available before the first task is
\* processed, and generating the grid again gives the same boundaries.
C8_SlotGridTiles ==
    pc # "constructed" =>
        LET n == Len(availableSlots)
        IN  /\ n * SlotMinutes = workdayEnd - workdayStart
            /\ (workdayStart = 8 * 60 /\ workdayEnd = 20 * 60) => n = 24
            /\ n > 0
            /\ availableSlots[1].start = workdayStart
            /\ availableSlots[n].end = workdayEnd
            /\ \A i \in 1..n :
                  availableSlots[i].end = availableSlots[i].start + 30
            /\ \A i \in 1..(n - 1) :
                  availableSlots[i + 1].start = availableSlots[i].end
            /\ (pc = "loop" /\ pos = 1) =>
                  \A i \in 1..n : availableSlots[i].available
            /\ [i \in 1..n |-> [availableSlots[i] EXCEPT !.available = TRUE]]
                  = GenerateTimeSlots(workdayStart, workdayEnd)

C8_Witness ==
    /\ pc = "loop"
    /\ pos = 1
    /\ Len(availableSlots) = 24
    /\ availableSlots[24].end = workdayEnd

\* C9: Flexible placement is chronological first-fit: a task without
\* preferred window that is not Fixed-with-startTime is placed iff some slot
\* is available and at least as long as its duration, then in the earliest
\* such slot, with startTime = slot start, endTime = slot start + duration,
\* and exactly that slot becomes unavailable.
C9_FlexibleFirstFit ==
    [][(/\ pc = "loop" /\ pos <= Len(tasks)
        /\ tasks[pos].preferredTimeRange = <<>>
        /\ ~(tasks[pos].type = "fixed" /\ tasks[pos].startTime # <<>>))
       =>
       LET t == tasks[pos]
           fitting == {i \in 1..Len(availableSlots) :
                          /\ availableSlots[i].available
                          /\ availableSlots[i].end - availableSlots[i].start >= t.duration}
       IN  IF fitting = {}
           THEN /\ scheduledTasks' = scheduledTasks
                /\ availableSlots' = availableSlots
           ELSE LET m == Min(fitting)
                IN  /\ scheduledTasks' = Append(scheduledTasks,
                           [t EXCEPT !.startTime = <<availableSlots[m].start>>,
                                     !.endTime = <<availableSlots[m].start + t.duration>>])
                    /\ availableSlots' =
                           [availableSlots EXCEPT ![m].available = FALSE]]_vars

C9_Witness ==
    /\ pc = "returned"
    /\ Len(returned[1]) = 2
    /\ placement[1].via = "flexible" /\ placement[2].via = "flexible"
    /\ returned[1][1].startTime = <<480>> /\ returned[1][1].endTime = <<510>>
    /\ returned[1][2].startTime = <<510>> /\ returned[1][2].endTime = <<540>>

PosOf(id) == CHOOSE i \in 1..Len(tasks) : tasks[i].id = id

\* the slots a slot-based strategy may select for task t, as the claims state it
Candidates(t) ==
    {i \in 1..Len(availableSlots) :
        /\ availableSlots[i].available
        /\ availableSlots[i].end - availableSlots[i].start >= t.duration
        /\ t.preferredTimeRange # <<>> =>
              /\ availableSlots[i].start >= t.preferredTimeRange[1].start
              /\ availableSlots[i].end <= t.preferredTimeRange[1].end}

FixedWithStart(t) == t.type = "fixed" /\ t.startTime # <<>>

\* C11: soft failure: when a Preferred-Window or Flexible task finds no
\* available fitting slot (for a Preferred-Window task: none inside its
\* window, whatever is free outside it), nothing is accumulated for it, no
\* error is raised, no slot changes, and the run moves on to the next task.
C11_SoftFailure ==
    [][(/\ pc = "loop" /\ pos <= Len(tasks)
        /\ ~FixedWithStart(tasks[pos])
        /\ Candidates(tasks[pos]) = {})
       =>
       /\ scheduledTasks' = scheduledTasks
       /\ availableSlots' = availableSlots
       /\ pc' = "loop"
       /\ pos' = pos + 1
       /\ returned' = returned]_vars

C11_Witness ==
    /\ pc = "returned"
    /\ Len(tasks) = 2
    /\ ~FixedWithStart(tasks[2])
    /\ tasks[2].preferredTimeRange # <<>>
    /\ tasks[2].duration = SlotMinutes
    /\ \A k \in 1..Len(returned[1]) : returned[1][k].id # tasks[2].id
    /\ Len(returned[1]) = 1
    /\ availableSlots[1].available

\* C12: fit boundary: a task fits a slot exactly when the slot's length is
\* >= its duration: a task of duration 31 or more is never placed by a
\* slot-based strategy, and a task of duration 30 (or less) handled by
\* Flexible placement is placed as long as the grid has a free slot.
C12_FitBoundary ==
    /\ \A k \in 1..Len(scheduledTasks) :
          SlotBased(k) => scheduledTasks[k].duration <= SlotMinutes
    /\ (pc = "returned" /\ Len(tasks) <= Len(availableSlots)) =>
          \A i \in 1..Len(tasks) :
              (/\ ~FixedWithStart(tasks[i])
               /\ tasks[i].preferredTimeRange = <<>>
               /\ tasks[i].duration <= SlotMinutes)
              => \E k \in 1..Len(returned[1]) :
                    /\ returned[1][k].id = tasks[i].id
                    /\ SlotBased(k)

C12_Witness ==
    /\ pc = "returned"
    /\ \E k \in 1..Len(returned[1]) :
          SlotBased(k) /\ returned[1][k].duration = SlotMinutes
    /\ \E i \in 1..Len(tasks) :
          /\ ~FixedWithStart(tasks[i])
          /\ tasks[i].duration = SlotMinutes + 1
          /\ \A k \in 1..Len(returned[1]) : returned[1][k].id # tasks[i].id

\* C13: the returned list holds only input tasks, each at most once, in the
\* prioritized order restricted to the placed tasks, and every returned
\* record has startTime and endTime populated and is otherwise the input
\* record.
C13_OutputContract ==
    pc = "returned" =>
        LET out == returned[1]
        IN  /\ \A k \in 1..Len(out) :
                  /\ \E i \in 1..Len(input) :
                        /\ input[i].id = out[k].id
                        /\ out[k] = [input[i] EXCEPT !.startTime = out[k].startTime,
                                                     !.endTime = out[k].endTime]
                  /\ out[k].startTime # <<>>
                  /\ out[k].endTime # <<>>
            /\ \A k, l \in 1..Len(out) :
                  k < l => /\ out[k].id # out[l].id
                           /\ PosOf(out[k].id) < PosOf(out[l].id)
                           /\ Rank(out[k]) >= Rank(out[l])

C13_Witness ==
    /\ pc = "returned"
    /\ Len(returned[1]) = 2
    /\ returned[1][1].id = 2
    /\ returned[1][2].id = 1
    /\ input[1].id = 1

\* C14: dispatch precedence: a task is handled by Fixed placement iff it is
\* Fixed and carries a startTime (whether or not it carries a preferred
\* window), otherwise by Preferred-Window placement iff it carries a
\* preferred window, otherwise by Flexible placement; a Fixed task without
\* startTime is placed from the slot grid.
C14_Dispatch ==
    [][(pc = "loop" /\ pos <= Len(tasks)) =>
       LET t == tasks[pos]
           claimed == IF FixedWithStart(t) THEN "fixed"
                      ELSE IF t.preferredTimeRange # <<>> THEN "preference"
                      ELSE "flexible"
           placed == Len(scheduledTasks') > Len(scheduledTasks)
           new == scheduledTasks'[Len(scheduledTasks')]
           how == placement'[Len(placement')]
       IN  /\ placed => how.via = claimed
           /\ claimed = "fixed" =>
                 /\ availableSlots' = availableSlots
                 /\ placed => new.startTime = t.startTime
           /\ claimed # "fixed" =>
                 /\ pc' = "loop"
                 /\ placed => /\ how.slot \in Candidates(t)
                              /\ new.startTime = <<availableSlots[how.slot].start>>
                              /\ ~availableSlots'[how.slot].available
           /\ (claimed = "flexible" /\ Candidates(t) # {}) => placed]_vars

C14_Witness ==
    /\ \E k \in 1..Len(scheduledTasks) :
          /\ scheduledTasks[k].type = "fixed"
          /\ scheduledTasks[k].preferredTimeRange # <<>>
          /\ placement[k].via = "fixed"
    /\ \E k \in 1..Len(scheduledTasks) :
          /\ scheduledTasks[k].type = "fixed"
          /\ SlotBased(k)

\* C15 (as claimed): the engine is a pure computation of its inputs: a run
\* over the same task list and workday bounds returns the same output
\* whatever the time it executes at.
C15_PureComputation ==
    pc = "returned" =>
        \A now \in Clock :
            /\ ~AutoSchedule(input, now).thrown
            /\ AutoSchedule(input, now).out = returned[1]

\* index in the prioritized list of the first Fixed task whose startTime is
\* outside the workday, 0 when there is none
FirstOutside ==
    LET outside == {i \in 1..Len(tasks) :
                       FixedWithStart(tasks[i]) /\ ~Inside(tasks[i].startTime[1])}
    IN  IF outside = {} THEN 0 ELSE Min(outside)

\* C16: every run terminates: it completes after dispatching each
\* prioritized task exactly once, or it aborts at the first Fixed task (in
\* priority order) whose startTime is outside the workday, and nothing is
\* processed after that.
C16_Terminates ==
    /\ <>[](\/ /\ pc = "returned"
               /\ pos = Len(tasks) + 1
               /\ FirstOutside = 0
            \/ /\ pc = "thrown"
               /\ FirstOutside > 0
               /\ pos = FirstOutside
               /\ Len(scheduledTasks) < pos)
    /\ [][/\ pc \notin {"returned", "thrown"}
          /\ pos' \in {pos, pos + 1}
          /\ pos' = pos + 1 => pos <= Len(tasks)
          /\ Len(scheduledTasks') <= Len(scheduledTasks) + 1]_vars

C16_Witness ==
    /\ pc = "thrown"
    /\ Len(tasks) = 2
    /\ pos = 1
    /\ FirstOutside = 1

\* C17: Fixed placement leaves the slot grid unchanged and does not depend
\* on it: a Fixed task with a startTime inside the workday is placed whatever
\* the availability of the slots, and no slot changes.  (The witness is the
\* reachable state in which a slot-placed task overlaps an earlier Fixed one.)
C17_FixedBypassesGrid ==
    [][(pc = "loop" /\ pos <= Len(tasks) /\ FixedWithStart(tasks[pos])) =>
       /\ availableSlots' = availableSlots
       /\ Inside(tasks[pos].startTime[1]) =>
             /\ Len(scheduledTasks') = Len(scheduledTasks) + 1
             /\ placement'[Len(placement')] = [via |-> "fixed", slot |-> 0]]_vars

C17_Witness ==
    \E k, l \in 1..Len(scheduledTasks) :
        /\ k < l
        /\ placement[k].via = "fixed"
        /\ SlotBased(l)
        /\ Overlap(scheduledTasks[k], scheduledTasks[l])
        /\ scheduledTasks[k].startTime[1] < availableSlots[placement[l].slot].end
        /\ availableSlots[placement[l].slot].start <= scheduledTasks[k].startTime[1]

C20_LastSlotNotClamped ==
    pc # "constructed" =>
        LET n == Len(availableSlots)
            len == workdayEnd - workdayStart
        IN  /\ n = (len + SlotMinutes - 1) \div SlotMinutes
            /\ availableSlots[1].start = workdayStart
            /\ \A i \in 1..n :
                  availableSlots[i].end = availableSlots[i].start + SlotMinutes
            /\ \A i \in 1..(n - 1) :
                  availableSlots[i + 1].start = availableSlots[i].end
            /\ availableSlots[n].start < workdayEnd
            /\ IF len % SlotMinutes = 0
               THEN availableSlots[n].end = workdayEnd
               ELSE availableSlots[n].end > workdayEnd

C20_Witness ==
    /\ (workdayEnd - workdayStart) % SlotMinutes # 0
    /\ \E k \in 1..Len(scheduledTasks) :
          /\ SlotBased(k)
          /\ placement[k].slot = Len(availableSlots)
          /\ scheduledTasks[k].endTime[1] > workdayEnd

\* the output with the endTime of the Fixed placements left aside (that
\* endTime is read off the clock)
MaskFixedEnd(out) ==
    [k \in 1..Len(out) |->
        IF FixedWithStart(out[k]) THEN [out[k] EXCEPT !.endTime = <<>>] ELSE out[k]]

\* C21: the scheduling configuration is a no-op: whatever config is given to
\* createScheduler the scheduler is the one created without config, its
\* workday stays 08:00-20:00 (24 slots), the run returns what a run without
\* config returns, and no break is inserted: a Flexible task takes slot i
\* only when every earlier slot is taken.
C21_ConfigIsNoOp ==
    /\ workdayStart = 8 * 60
    /\ workdayEnd = 20 * 60
    /\ pc = "constructed" =>
          [tasks |-> tasks, workdayStart |-> workdayStart, workdayEnd |-> workdayEnd]
              = CreateScheduler(input, <<>>)
    /\ pc # "constructed" => Len(availableSlots) = 24
    /\ \A k \in 1..Len(placement) :
          placement[k].via = "flexible" =>
              \A j \in 1..(placement[k].slot - 1) : ~availableSlots[j].available
    /\ pc = "returned" =>
          \A now \in Clock :
              /\ ~AutoSchedule(input, now).thrown
              /\ MaskFixedEnd(AutoSchedule(input, now).out) = MaskFixedEnd(returned[1])

C21_Witness ==
    /\ pc = "returned"
    /\ config # <<>>
    /\ config[1].workdayStart = <<540>>
    /\ config[1].workdayEnd = <<1020>>
    /\ config[1].breakBetweenTasks = <<15>>
    /\ Len(returned[1]) = 2
    /\ placement[1].via = "flexible" /\ placement[2].via = "flexible"
    /\ returned[1][1].startTime = <<480>>
    /\ returned[1][2].startTime = returned[1][1].endTime

\* the slots that are marked unavailable
Unavailable == {i \in 1..Len(availableSlots) : ~availableSlots[i].available}

\* the accumulated tasks that were placed through a slot-based strategy
SlotPlaced == {k \in 1..Len(placement) : SlotBased(k)}

\* C22: at every point of a run the unavailable slots are exactly the slots
\* held by the tasks accumulated so far through slot-based placement, one
\* distinct slot each, so their numbers are equal; hence a run never returns
\* more slot-placed tasks than the grid has slots (24 for 08:00-20:00).
C22_SlotAccounting ==
    /\ Cardinality(Unavailable) = Cardinality(SlotPlaced)
    /\ {placement[k].slot : k \in SlotPlaced} = Unavailable
    /\ \A k, l \in SlotPlaced : k # l => placement[k].slot # placement[l].slot
    /\ Len(placement) = Len(scheduledTasks)
    /\ Cardinality(SlotPlaced) <= Len(availableSlots)
    /\ (pc # "constructed" /\ workdayStart = 8 * 60 /\ workdayEnd = 20 * 60)
          => Len(availableSlots) = 24
    /\ pc = "returned" =>
          /\ Len(returned[1]) = Len(placement)
          /\ Cardinality(SlotPlaced) <= Len(availableSlots)

C22_Witness ==
    /\ pc = "returned"
    /\ Len(availableSlots) = 1
    /\ Len(tasks) = 2
    /\ \A i \in 1..2 : ~FixedWithStart(tasks[i]) /\ tasks[i].preferredTimeRange = <<>>
    /\ Len(returned[1]) = 1
    /\ SlotPlaced = {1}
    /\ Unavailable = {1}

NoPreferredWindow == \A i \in 1..Len(input) : input[i].preferredTimeRange = <<>>

\* C23: in a run whose tasks carry no preferredWindow the unavailable slots
\* always form a prefix of the grid (no available slot precedes an
\* unavailable one: the k-th slot-placed task holds slot k), and the
\* slot-placed tasks of the output have strictly increasing startTimes in
\* output order.
C23_PrefixOfGrid ==
    NoPreferredWindow =>
        /\ \A i, j \in 1..Len(availableSlots) :
              (i < j /\ ~availableSlots[j].available) => ~availableSlots[i].available
        /\ Unavailable = 1..Cardinality(SlotPlaced)
        /\ \A k, l \in SlotPlaced :
              k < l => /\ placement[k].slot < placement[l].slot
                       /\ scheduledTasks[k].startTime[1] < scheduledTasks[l].startTime[1]
        /\ pc = "returned" =>
              \A k, l \in SlotPlaced :
                  k < l => returned[1][k].startTime[1] < returned[1][l].startTime[1]

C23_Witness ==
    /\ NoPreferredWindow
    /\ pc = "returned"
    /\ Len(returned[1]) = 2
    /\ SlotPlaced = {1, 2}
    /\ Unavailable = {1, 2}
    /\ returned[1][1].startTime = <<480>>
    /\ returned[1][2].startTime = <<510>>
    /\ \A i \in 3..Len(availableSlots) : availableSlots[i].available

\* the store's record of this id
StoreRecord(id) == CHOOSE t \in {tasks[i] : i \in 1..Len(tasks)} : t.id = id

Ids(ts) == {ts[i].id : i \in 1..Len(ts)}

\* C24: when the engine aborts with the hard failure, the thunk dispatches
\* no updateTask and persists nothing, whatever the engine had accumulated:
\* every record of the store is its record of before the run (previous
\* startTime/endTime included), the storage is untouched, the thunk never
\* completes normally, and once the error is caught the store's error is
\* 'Failed to auto-schedule tasks' and loading is false.
C24_AbortLeavesStore ==
    pc = "thrown" =>
        /\ upd = 1
        /\ storage = input
        /\ Len(tasks) = Len(input)
        /\ Ids(tasks) = Ids(input)
        /\ \A i \in 1..Len(input) : StoreRecord(input[i].id) = input[i]
        /\ thunk \in {"try", "caught"}
        /\ thunk = "try" => (error = <<>> /\ ENABLED ThunkCatch)
        /\ thunk = "caught" =>
              (error = <<"Failed to auto-schedule tasks">> /\ loading = FALSE)

C24_Witness ==
    /\ pc = "thrown"
    /\ thunk = "caught"
    /\ error = <<"Failed to auto-schedule tasks">>
    /\ Len(scheduledTasks) = 1
    /\ scheduledTasks[1].endTime # InputOf(scheduledTasks[1].id).endTime
    /\ \E i \in 1..Len(tasks) : tasks[i].endTime = <<630>>

\* C25: after a completed engine run the store holds the same task ids as
\* before, during the updates and after them; when the thunk is done every
\* task the engine returned has replaced the store record of its id, and
\* every task the engine omitted keeps its previous record, previous
\* startTime/endTime included.
C25_StoreAfterRun ==
    pc = "returned" =>
        /\ Len(tasks) = Len(input)
        /\ Ids(tasks) = Ids(input)
        /\ thunk = "done" =>
              \A i \in 1..Len(input) :
                  LET id == input[i].id
                      out == {k \in 1..Len(returned[1]) : returned[1][k].id = id}
                  IN  IF out = {}
                      THEN StoreRecord(id) = input[i]
                      ELSE \A k \in out : StoreRecord(id) = returned[1][k]

C25_Witness ==
    /\ thunk = "done"
    /\ Len(tasks) = 2
    /\ Len(returned[1]) = 1
    /\ StoreRecord(returned[1][1].id) = returned[1][1]
    /\ returned[1][1] # InputOf(returned[1][1].id)
    /\ \E i \in 1..2 :
          /\ input[i].id # returned[1][1].id
          /\ input[i].startTime = <<480>>
          /\ input[i].endTime = <<630>>
          /\ StoreRecord(input[i].id) = input[i]

====
